---- MODULE Spec2Model ----
(***************************************************************************)
(* Model of the board store (src/stores/boardStore.ts) of trelllo-clone:   *)
(* the local board state, the asynchronous store actions and the requests  *)
(* they have in flight at the Gateway (the /api endpoints).                *)
(*                                                                         *)
(* Every store action is an async function.  Its synchronous prefix (up to *)
(* the first await) is one "...Call" action; what runs after the awaited   *)
(* request settles is one "...Resolve" / "...Reject" action.  The Gateway  *)
(* handles each request in its own step ("Gw..."), so requests of several  *)
(* operations are served, and their responses delivered, in any order.     *)
(*                                                                         *)
(* Positions and indexes are zero-based as in the source; TLA+ sequences   *)
(* are one-based, so the card at index i is cards[i + 1].                  *)
(***************************************************************************)
EXTENDS Integers, Sequences, FiniteSets, TLC

VARIABLES board, isLoading, gw, ops, fac

vars == <<board, isLoading, gw, ops, fac>>

(* ------------------------------ bounds -------------------------------- *)

\* the latest reading of the clock (Date.now()) in one behaviour
MaxClock == 1

\* number of store actions called in one behaviour
MaxOps == 2
\* cards the Gateway's database holds when the page is opened
MaxInitCards == 2

(* ----------------------------- constants ------------------------------ *)

\* value of an absent optional argument or of a property an object lacks
Undefined == -1

\* list ids a caller may pass: those of the lists on the board, and 0, which
\* neither the board nor the Gateway holds
ListIdArgs == {0} \cup {board.lists[i].id : i \in DOMAIN board.lists}

\* card ids a caller may pass: those on the board, and 0, which is on no list
CardIdArgs == {0} \cup UNION {{ board.lists[i].cards[k].id : k \in DOMAIN board.lists[i].cards } :
                                 i \in DOMAIN board.lists}

\* indexes a caller may pass to moveCard: every index of the longest list on
\* the board and the one behind it
IndexArgs ==
    {k \in 0..MaxInitCards + MaxOps :
        \/ k = 0
        \/ \E i \in DOMAIN board.lists : k <= Len(board.lists[i].cards)}

(* ------------------------------ helpers ------------------------------- *)

Range(s) == {s[i] : i \in DOMAIN s}

RemoveAt(s, i) == SubSeq(s, 1, i - 1) \o SubSeq(s, i + 1, Len(s))

Min(a, b) == IF a < b THEN a ELSE b

\* Array.prototype.splice(start, 0, x) for start >= 0: start is clamped to
\* the length of the array
SpliceInsert(s, start, x) ==
    LET k == Min(start, Len(s))
    IN  SubSeq(s, 1, k) \o <<x>> \o SubSeq(s, k + 1, Len(s))

\* the strings callers pass as titles and descriptions, as sequences of
\* characters: one without and one with surrounding whitespace
Texts == {<<"T">>, <<" ", "T">>}

\* the title of every list and card the Gateway holds at the start
StoredTitle == <<"T">>

\* String.prototype.trim
RECURSIVE Trim(_)
Trim(str) ==
    IF str = <<>> THEN <<>>
    ELSE IF Head(str) = " " THEN Trim(Tail(str))
    ELSE IF str[Len(str)] = " " THEN Trim(SubSeq(str, 1, Len(str) - 1))
    ELSE str

\* a || b on strings: the empty string is falsy
OrElse(a, b) == IF a = <<>> THEN b ELSE a

\* obj.f in JavaScript: undefined when the object has no such property
Prop(obj, f) == IF f \in DOMAIN obj THEN obj[f] ELSE Undefined

\* this.board.lists.findIndex(list => list.id === listId), one-based; 0 when
\* there is none
FindListIndex(lists, listId) ==
    IF \E i \in DOMAIN lists : lists[i].id = listId
    THEN CHOOSE i \in DOMAIN lists :
            /\ lists[i].id = listId
            /\ \A j \in DOMAIN lists : lists[j].id = listId => i <= j
    ELSE 0

\* list.cards.findIndex(card => card.id === cardId), one-based; 0 when none
FindCardIndex(cards, cardId) ==
    IF \E i \in DOMAIN cards : cards[i].id = cardId
    THEN CHOOSE i \in DOMAIN cards :
            /\ cards[i].id = cardId
            /\ \A j \in DOMAIN cards : cards[j].id = cardId => i <= j
    ELSE 0

(* ------------------------------ Gateway ------------------------------- *)

\* the database rows of the cards of one list
GwCardsOf(db, listId) == {c \in db.cards : c.list = listId}

\* the cards of one list ordered by position (ties by id), as GET /api/board
\* returns them
RECURSIVE SortCards(_)
SortCards(cs) ==
    IF cs = {} THEN <<>>
    ELSE LET c == CHOOSE x \in cs :
                    \A y \in cs : \/ x.position < y.position
                                  \/ x.position = y.position /\ x.id <= y.id
         IN  <<c>> \o SortCards(cs \ {c})

\* the body of the response of GET /api/board
GwBoard(db) ==
    [lists |-> [i \in DOMAIN db.lists |->
        [id    |-> db.lists[i],
         title |-> db.listTitle[db.lists[i]],
         cards |-> [k \in DOMAIN SortCards(GwCardsOf(db, db.lists[i])) |->
              LET c == SortCards(GwCardsOf(db, db.lists[i]))[k]
              IN  [id |-> c.id, title |-> c.title, description |-> c.description,
                   list_id |-> c.list, position |-> c.position]]]]]

\* a database holding n1 cards in list 1 and n2 cards in list 2
InitDb(n1, n2) ==
    [lists    |-> <<1, 2>>,
     listTitle |-> [l \in {1, 2} |-> StoredTitle],
     cards    |-> {[id |-> k, title |-> StoredTitle, description |-> <<>>,
                    list |-> 1, position |-> k - 1] : k \in 1..n1}
                  \cup {[id |-> n1 + k, title |-> StoredTitle, description |-> <<>>,
                         list |-> 2, position |-> k - 1] : k \in 1..n2},
     nextCard |-> n1 + n2 + 1,
     nextList |-> 3]

(* --------------------------- operations ------------------------------- *)

\* one $fetch call: st is "sent" (not yet handled by the Gateway), "ok" or
\* "err" (handled, response on its way), "done_ok" or "done_err" (the
\* response was delivered and its continuation ran)
Request(verb, card, list, pos) ==
    [verb |-> verb, card |-> card, list |-> list, pos |-> pos, title |-> Undefined,
     st |-> "sent", resp |-> <<>>]

\* one call of a store action.  preFrom, preTo and busyAtCall record what the
\* caller saw when it made the call (the container the call is about, and
\* whether anything was still in flight); the store never reads them.
Op(kind, pc, listId, toListId, cardId, reqs, newIndex, preFrom, preTo) ==
    [kind |-> kind, pc |-> pc, outcome |-> "none",
     listId |-> listId, toListId |-> toListId, cardId |-> cardId,
     cardIndex |-> Undefined, newIndex |-> newIndex, value |-> Undefined,
     reqs |-> reqs,
     preFrom |-> preFrom, preTo |-> preTo,
     busyAtCall |-> \E p \in DOMAIN ops :
                        \/ ops[p].pc # "done"
                        \/ \E i \in DOMAIN ops[p].reqs :
                              ops[p].reqs[i].st \in {"sent", "ok", "err"}]

\* a call that returned in its synchronous prefix, having done nothing
NoOp(kind) ==
    [Op(kind, "done", Undefined, Undefined, Undefined, <<>>, Undefined, <<>>, <<>>)
        EXCEPT !.outcome = "returned"]

Ids(entities) == [i \in DOMAIN entities |-> entities[i].id]

\* the cards of the first list with this id, <<>> when there is none
CardsOf(lists, listId) ==
    IF FindListIndex(lists, listId) = 0 THEN <<>>
    ELSE lists[FindListIndex(lists, listId)].cards

\* a store that lets one action run at a time: a call waits until every
\* earlier operation has finished
CanCall_serial ==
    /\ Len(ops) < MaxOps
    /\ \A p \in DOMAIN ops : ops[p].pc = "done"

CanCall == Len(ops) < MaxOps

\* the response of the awaited request is delivered and the operation runs to
\* its end: it returns normally ("returned") or throws to its caller ("threw")
Finish(o, outcome) ==
    [ops EXCEPT ![o].pc = "done",
                ![o].outcome = outcome,
                ![o].reqs[1].st = IF @ = "ok" THEN "done_ok" ELSE "done_err"]

Awaiting(o, kind, st) ==
    /\ o \in DOMAIN ops
    /\ ops[o].kind = kind
    /\ ops[o].pc = "await"
    /\ ops[o].reqs[1].st = st

SetReq(o, i, st, resp) ==
    [ops EXCEPT ![o].reqs[i].st = st, ![o].reqs[i].resp = resp]

(* --------------------------- EntityFactory ---------------------------- *)

\* the strings Math.random().toString(36).substr(2, 8) can yield
Randoms == {"r1", "r2"}

\* `${prefix}_${timestamp}_${randomPart}`, kept as its three parts
GenerateId(prefix, timestamp, randomPart) == <<prefix, timestamp, randomPart>>

\* obj.f || b for a string property: a missing property and '' are falsy
OrProp(obj, f, b) == IF f \in DOMAIN obj /\ obj[f] # <<>> THEN obj[f] ELSE b

\* obj.f ?? b: only a missing property gives b
NullishProp(obj, f, b) == IF f \in DOMAIN obj THEN obj[f] ELSE b

\* createCard(params), the clock reading timestamp and the random string
\* randomPart being what Date.now() and Math.random() return during the call
CreateCard(params, timestamp, randomPart) ==
    [id          |-> GenerateId("card", timestamp, randomPart),
     title       |-> Trim(params.title),
     description |-> OrProp(params, "description", <<>>),
     position    |-> NullishProp(params, "position", 0),
     listId      |-> params.listId,
     createdAt   |-> timestamp,
     updatedAt   |-> timestamp]

\* createList(params)
CreateList(params, timestamp, randomPart) ==
    [id        |-> GenerateId("list", timestamp, randomPart),
     title     |-> Trim(params.title),
     position  |-> NullishProp(params, "position", 0),
     cards     |-> <<>>,
     createdAt |-> timestamp,
     updatedAt |-> timestamp]

\* cloneCard(card, overrides)
CloneCard(card, overrides, timestamp, randomPart) ==
    CreateCard([title       |-> OrProp(overrides, "title", card.title),
                listId      |-> OrProp(overrides, "listId", card.listId),
                description |-> OrProp(overrides, "description", card.description),
                position    |-> NullishProp(overrides, "position", card.position)],
               timestamp, randomPart)

\* the characters of " (副本)", the suffix of the title of a cloned list
CopySuffix == <<" ", "(", "copy", ")">>

\* cloneList(list, overrides): timestamps[1] and randomParts[1] go into the id
\* of the new list, those at k + 1 into the id of the clone of the card at k
CloneList(list, overrides, timestamps, randomParts) ==
    LET newList == CreateList([title    |-> OrProp(overrides, "title",
                                                   list.title \o CopySuffix),
                               position |-> NullishProp(overrides, "position",
                                                        list.position)],
                              timestamps[1], randomParts[1])
    IN  [newList EXCEPT !.cards =
            [k \in DOMAIN list.cards |->
                CloneCard(list.cards[k], [listId |-> newList.id],
                          timestamps[k + 1], randomParts[k + 1])]]

\* a JavaScript value given as position: typeof tells its type; NaN is of
\* type number and compares false with everything
JsNumber(n) == [type |-> "number", nan |-> FALSE, value |-> n]

JsNaN == [type |-> "number", nan |-> TRUE, value |-> 0]

JsString == [type |-> "string", nan |-> FALSE, value |-> 0]

\* value < 0 in JavaScript (a string such as 'abc' converts to NaN)
LessThanZero(v) == v.type = "number" /\ ~v.nan /\ v.value < 0

\* the messages of validateCard and validateList
CardTitleEmpty == "card title must not be empty"

CardWithoutList == "card must belong to a list"

CardPositionInvalid == "card position must be a non-negative number"

ListTitleEmpty == "list title must not be empty"

ListPositionInvalid == "list position must be a non-negative number"

\* !entity.title?.trim(): a missing title gives undefined, '' is falsy
TitleBlank(entity) == "title" \notin DOMAIN entity \/ Trim(entity.title) = <<>>

\* typeof entity.position !== 'number' || entity.position < 0
PositionRejected(entity) ==
    \/ "position" \notin DOMAIN entity
    \/ entity.position.type # "number"
    \/ LessThanZero(entity.position)

\* validateCard(card): the three checks in turn, each pushing its message
ValidateCard(card) ==
    (IF TitleBlank(card) THEN <<CardTitleEmpty>> ELSE <<>>)
    \o (IF "listId" \notin DOMAIN card \/ card.listId = <<>>
        THEN <<CardWithoutList>> ELSE <<>>)
    \o (IF PositionRejected(card) THEN <<CardPositionInvalid>> ELSE <<>>)

\* validateList(list)
ValidateList(list) ==
    (IF TitleBlank(list) THEN <<ListTitleEmpty>> ELSE <<>>)
    \o (IF PositionRejected(list) THEN <<ListPositionInvalid>> ELSE <<>>)

\* an object with the properties of both
Merge(a, b) ==
    [f \in DOMAIN a \cup DOMAIN b |-> IF f \in DOMAIN a THEN a[f] ELSE b[f]]

\* the Partial<Card> / Partial<List> values handed to the validators: each of
\* title, listId and position missing or present
TitleParts == {<<>>} \cup {[title |-> t] : t \in {<<>>, <<" ">>, <<"T">>, <<" ", "T">>}}

ListIdParts == {<<>>, [listId |-> <<>>], [listId |-> GenerateId("list", 0, "r1")]}

PositionParts ==
    {<<>>} \cup {[position |-> v] : v \in {JsString, JsNaN, JsNumber(-1), JsNumber(0),
                                           JsNumber(1)}}

PartialCards ==
    {Merge(Merge(t, l), q) : t \in TitleParts, l \in ListIdParts, q \in PositionParts}

PartialLists == {Merge(t, q) : t \in TitleParts, q \in PositionParts}

\* the factory before any call: fn names the function called last, src its
\* argument (before: the argument as it was when the call was made), index
\* the card of src a cloneCard was given, out the value returned
NoFactoryCall ==
    [now |-> 0, fn |-> "none", src |-> <<>>, before |-> <<>>, index |-> 0,
     overrides |-> <<>>, out |-> <<>>]

\* the overrides a caller passes to cloneCard: none, or some of title,
\* listId, description and position
CardOverrides ==
    {<<>>,
     [title |-> <<"N">>], [title |-> <<>>],
     [description |-> <<"E">>], [description |-> <<>>],
     [position |-> 0], [position |-> 1],
     [listId |-> GenerateId("list", 0, "r1")],
     [title |-> <<" ", "N">>, position |-> 1]}

\* the overrides a caller passes to cloneList: none, or some of title and
\* position
ListOverrides ==
    {<<>>, [title |-> <<"N">>], [title |-> <<>>], [position |-> 0], [position |-> 1],
     [title |-> <<" ", "N">>, position |-> 1]}

\* a list of n cards as the factory made it at time 0
SourceList(n, randomParts, descriptions) ==
    [id        |-> GenerateId("list", 0, randomParts[1]),
     title     |-> StoredTitle,
     position  |-> 1,
     cards     |-> [k \in 1..n |->
                      [id          |-> GenerateId("card", 0, randomParts[k + 1]),
                       title       |-> StoredTitle,
                       description |-> descriptions[k],
                       position    |-> k - 1,
                       listId      |-> GenerateId("list", 0, randomParts[1]),
                       createdAt   |-> 0,
                       updatedAt   |-> 0]],
     createdAt |-> 0,
     updatedAt |-> 0]

(* ------------------------------ Init ---------------------------------- *)

\* the mapping of the response keeps id and title of each list, and id,
\* title, description and position of each card
FetchedLists(resp) ==
    [i \in DOMAIN resp.lists |->
        [id    |-> resp.lists[i].id,
         title |-> resp.lists[i].title,
         cards |-> [k \in DOMAIN resp.lists[i].cards |->
                      [id          |-> resp.lists[i].cards[k].id,
                       title       |-> resp.lists[i].cards[k].title,
                       description |-> resp.lists[i].cards[k].description,
                       position    |-> resp.lists[i].cards[k].position]]]]

\* the store as constructed (no lists), or as the first fetchBoard of the page
\* left it (the lists and cards the Gateway holds)
Init ==
    /\ \E n1 \in 0..MaxInitCards, n2 \in 0..MaxInitCards :
          /\ n1 + n2 <= MaxInitCards
          /\ gw = InitDb(n1, n2)
    /\ board \in {[lists |-> <<>>], [lists |-> FetchedLists(GwBoard(gw))]}
    /\ isLoading = FALSE
    /\ ops = <<>>
    /\ fac = NoFactoryCall

(* ----------------------------- fetchBoard ----------------------------- *)

\* fetchBoard up to its await of GET /api/board (the 800 ms pause of development
\* builds, one more await before the request, is left out)
FetchBoardCall ==
    /\ CanCall
    /\ isLoading' = TRUE
    /\ ops' = Append(ops, Op("fetchBoard", "await", Undefined, Undefined, Undefined,
                             <<Request("GET", Undefined, Undefined, Undefined)>>,
                             Undefined, <<>>, <<>>))
    /\ UNCHANGED <<board, gw>>
    /\ UNCHANGED fac

GwGetBoard(o) ==
    /\ Awaiting(o, "fetchBoard", "sent")
    /\ ops' = SetReq(o, 1, "ok", GwBoard(gw))
    /\ UNCHANGED <<board, isLoading, gw>>
    /\ UNCHANGED fac

\* GET /api/board is answered with a body that has no lists property
NoListsBody == [message |-> "no board"]

GwGetBoardNoLists(o) ==
    /\ Awaiting(o, "fetchBoard", "sent")
    /\ ops' = SetReq(o, 1, "ok", NoListsBody)
    /\ UNCHANGED <<board, isLoading, gw>>
    /\ UNCHANGED fac

\* the continuation after the await: the response's lists replace the board's,
\* a response without lists leaves the empty board; finally clears isLoading
FetchBoardResolve(o) ==
    /\ Awaiting(o, "fetchBoard", "ok")
    /\ board' = IF "lists" \in DOMAIN ops[o].reqs[1].resp
                THEN [lists |-> FetchedLists(ops[o].reqs[1].resp)]
                ELSE [lists |-> <<>>]
    /\ isLoading' = FALSE
    /\ ops' = Finish(o, "returned")
    /\ UNCHANGED gw
    /\ UNCHANGED fac

\* the catch block without the finally block behind it
FetchBoardReject_noFinally(o) ==
    /\ Awaiting(o, "fetchBoard", "err")
    /\ board' = [lists |-> <<>>]
    /\ ops' = Finish(o, "returned")
    /\ UNCHANGED <<isLoading, gw>>
    /\ UNCHANGED fac

\* the catch block (the error is logged, not rethrown), then the finally block
FetchBoardReject(o) ==
    /\ Awaiting(o, "fetchBoard", "err")
    /\ board' = [lists |-> <<>>]
    /\ isLoading' = FALSE
    /\ ops' = Finish(o, "returned")
    /\ UNCHANGED gw
    /\ UNCHANGED fac

(* ------------------------------ addList ------------------------------- *)

\* addList(title): the synchronous prefix only issues POST /api/lists
AddListCall(title) ==
    /\ CanCall
    /\ ops' = Append(ops,
          [Op("addList", "await", Undefined, Undefined, Undefined,
              <<[Request("POST_LIST", Undefined, Undefined, Undefined)
                    EXCEPT !.title = title]>>,
              Undefined, Ids(board.lists), <<>>)
             EXCEPT !.value = title])
    /\ UNCHANGED <<board, isLoading, gw>>
    /\ UNCHANGED fac

\* POST /api/lists: the Gateway stores a new list under a fresh id
GwCreateList(o) ==
    /\ Awaiting(o, "addList", "sent")
    /\ gw' = [gw EXCEPT !.lists = Append(@, gw.nextList),
                         !.listTitle = [l \in DOMAIN @ \cup {gw.nextList} |->
                                          IF l = gw.nextList
                                          THEN ops[o].reqs[1].title ELSE @[l]],
                         !.nextList = @ + 1]
    /\ ops' = SetReq(o, 1, "ok", [id |-> gw.nextList, title |-> ops[o].reqs[1].title])
    /\ UNCHANGED <<board, isLoading>>
    /\ UNCHANGED fac

\* after the await: push { ...response, cards: [] }
AddListResolve(o) ==
    /\ Awaiting(o, "addList", "ok")
    /\ board' = [board EXCEPT !.lists =
                    Append(@, [id    |-> ops[o].reqs[1].resp.id,
                               title |-> ops[o].reqs[1].resp.title,
                               cards |-> <<>>])]
    /\ ops' = Finish(o, "returned")
    /\ UNCHANGED <<isLoading, gw>>
    /\ UNCHANGED fac

\* the catch block logs the error and falls off the end of the function
AddListReject(o) ==
    /\ Awaiting(o, "addList", "err")
    /\ ops' = Finish(o, "returned")
    /\ UNCHANGED <<board, isLoading, gw>>
    /\ UNCHANGED fac

(* ------------------------------ addCard ------------------------------- *)

\* addCard(listId, title): the synchronous prefix only issues POST /api/cards
AddCardCall(listId, title) ==
    /\ CanCall
    /\ ops' = Append(ops,
          [Op("addCard", "await", listId, Undefined, Undefined,
              <<[Request("POST_CARD", Undefined, listId, Undefined)
                    EXCEPT !.title = title]>>,
              Undefined, CardsOf(board.lists, listId), <<>>)
             EXCEPT !.value = title])
    /\ UNCHANGED <<board, isLoading, gw>>
    /\ UNCHANGED fac

\* POST /api/cards: the Gateway stores a new card under a fresh id at the end
\* of the list; a list it does not hold is a foreign-key error (GwFail)
GwCreateCard(o) ==
    /\ Awaiting(o, "addCard", "sent")
    /\ ops[o].reqs[1].list \in Range(gw.lists)
    /\ LET row == [id       |-> gw.nextCard,
                   title    |-> ops[o].reqs[1].title,
                   description |-> <<>>,
                   list     |-> ops[o].reqs[1].list,
                   position |-> Cardinality(GwCardsOf(gw, ops[o].reqs[1].list))]
       IN  /\ gw' = [gw EXCEPT !.cards = @ \cup {row}, !.nextCard = @ + 1]
           /\ ops' = SetReq(o, 1, "ok",
                        [id |-> row.id, title |-> row.title,
                         description |-> row.description,
                         list_id |-> row.list, position |-> row.position])
    /\ UNCHANGED <<board, isLoading>>
    /\ UNCHANGED fac

\* the card pushed by addCard: id, description and position as the response
\* carries them, the title of the response or else the title passed in
NewCard(resp, title) ==
    [id          |-> resp.id,
     title       |-> OrElse(resp.title, title),
     description |-> resp.description,
     position    |-> resp.position]

\* after the await: find the list, push the card; a missing list is logged
AddCardResolve(o) ==
    /\ Awaiting(o, "addCard", "ok")
    /\ LET i == FindListIndex(board.lists, ops[o].listId)
       IN  board' = IF i = 0 THEN board
                    ELSE [board EXCEPT !.lists[i].cards =
                              Append(@, NewCard(ops[o].reqs[1].resp, ops[o].value))]
    /\ ops' = Finish(o, "returned")
    /\ UNCHANGED <<isLoading, gw>>
    /\ UNCHANGED fac

\* a catch block that discards the last card of the list, as the rollback of
\* a Draft would
AddCardReject_discard(o) ==
    /\ Awaiting(o, "addCard", "err")
    /\ LET i == FindListIndex(board.lists, ops[o].listId)
       IN  board' = IF i = 0 \/ board.lists[i].cards = <<>> THEN board
                    ELSE [board EXCEPT !.lists[i].cards = SubSeq(@, 1, Len(@) - 1)]
    /\ ops' = Finish(o, "returned")
    /\ UNCHANGED <<isLoading, gw>>
    /\ UNCHANGED fac

\* the catch block logs the error and falls off the end of the function
AddCardReject(o) ==
    /\ Awaiting(o, "addCard", "err")
    /\ ops' = Finish(o, "returned")
    /\ UNCHANGED <<board, isLoading, gw>>
    /\ UNCHANGED fac

(* ----------------------------- removeList ----------------------------- *)

\* a removeList that takes the list off the board before the Gateway answers
RemoveListCall_optimistic(listId) ==
    /\ CanCall
    /\ FindListIndex(board.lists, listId) # 0
    /\ board' = [board EXCEPT !.lists = RemoveAt(@, FindListIndex(board.lists, listId))]
    /\ ops' = Append(ops, Op("removeList", "await", listId, Undefined, Undefined,
                             <<Request("DELETE_LIST", Undefined, listId, Undefined)>>,
                             Undefined, CardsOf(board.lists, listId), <<>>))
    /\ UNCHANGED <<isLoading, gw>>
    /\ UNCHANGED fac

\* removeList(listId): an id the board does not hold is logged and the
\* function returns; otherwise DELETE /api/lists/:id is issued
RemoveListCall(listId) ==
    /\ CanCall
    /\ ops' = Append(ops,
          IF FindListIndex(board.lists, listId) = 0
          THEN NoOp("removeList")
          ELSE Op("removeList", "await", listId, Undefined, Undefined,
                  <<Request("DELETE_LIST", Undefined, listId, Undefined)>>,
                  Undefined, CardsOf(board.lists, listId), <<>>))
    /\ UNCHANGED <<board, isLoading, gw>>
    /\ UNCHANGED fac

\* DELETE /api/lists/:id: the list is looked up first (no row is an error),
\* then deleted; its cards go with it (ON DELETE CASCADE)
GwDeleteList(o) ==
    /\ Awaiting(o, "removeList", "sent")
    /\ ops[o].reqs[1].list \in Range(gw.lists)
    /\ gw' = [gw EXCEPT
                !.lists = SelectSeq(@, LAMBDA l : l # ops[o].reqs[1].list),
                !.listTitle = [l \in DOMAIN @ \ {ops[o].reqs[1].list} |-> @[l]],
                !.cards = {c \in @ : c.list # ops[o].reqs[1].list}]
    /\ ops' = SetReq(o, 1, "ok", [id |-> ops[o].reqs[1].list])
    /\ UNCHANGED <<board, isLoading>>
    /\ UNCHANGED fac

\* a continuation whose splice has no delete count: the list and every list
\* behind it leave the board
RemoveListResolve_spliceToEnd(o) ==
    /\ Awaiting(o, "removeList", "ok")
    /\ LET i == FindListIndex(board.lists, ops[o].listId)
       IN  board' = IF i = 0 THEN board
                    ELSE [board EXCEPT !.lists = SubSeq(@, 1, i - 1)]
    /\ ops' = Finish(o, "returned")
    /\ UNCHANGED <<isLoading, gw>>
    /\ UNCHANGED fac

\* after the await: findIndex again and splice the list out
RemoveListResolve(o) ==
    /\ Awaiting(o, "removeList", "ok")
    /\ LET i == FindListIndex(board.lists, ops[o].listId)
       IN  board' = IF i = 0 THEN board
                    ELSE [board EXCEPT !.lists = RemoveAt(@, i)]
    /\ ops' = Finish(o, "returned")
    /\ UNCHANGED <<isLoading, gw>>
    /\ UNCHANGED fac

\* the catch block logs and re-throws
RemoveListReject(o) ==
    /\ Awaiting(o, "removeList", "err")
    /\ ops' = Finish(o, "threw")
    /\ UNCHANGED <<board, isLoading, gw>>
    /\ UNCHANGED fac

(* ----------------------------- removeCard ----------------------------- *)

\* removeCard(listId, cardId): DELETE /api/cards/:id is issued at once
RemoveCardCall(listId, cardId) ==
    /\ CanCall
    /\ ops' = Append(ops, Op("removeCard", "await", listId, Undefined, cardId,
                             <<Request("DELETE_CARD", cardId, Undefined, Undefined)>>,
                             Undefined, CardsOf(board.lists, listId), <<>>))
    /\ UNCHANGED <<board, isLoading, gw>>
    /\ UNCHANGED fac

\* DELETE /api/cards/:id: the row, if any, is deleted
GwDeleteCard(o) ==
    /\ Awaiting(o, "removeCard", "sent")
    /\ gw' = [gw EXCEPT !.cards = {c \in @ : c.id # ops[o].reqs[1].card}]
    /\ ops' = SetReq(o, 1, "ok", [id |-> ops[o].reqs[1].card])
    /\ UNCHANGED <<board, isLoading>>
    /\ UNCHANGED fac

\* after the await: find the list, then the card, and splice the card out;
\* the cards behind it keep their position values
RemoveCardResolve(o) ==
    /\ Awaiting(o, "removeCard", "ok")
    /\ LET i == FindListIndex(board.lists, ops[o].listId)
           k == IF i = 0 THEN 0 ELSE FindCardIndex(board.lists[i].cards, ops[o].cardId)
       IN  board' = IF k = 0 THEN board
                    ELSE [board EXCEPT !.lists[i].cards = RemoveAt(@, k)]
    /\ ops' = Finish(o, "returned")
    /\ UNCHANGED <<isLoading, gw>>
    /\ UNCHANGED fac

\* the catch block logs the error and falls off the end of the function
RemoveCardReject(o) ==
    /\ Awaiting(o, "removeCard", "err")
    /\ ops' = Finish(o, "returned")
    /\ UNCHANGED <<board, isLoading, gw>>
    /\ UNCHANGED fac

(* ------------------------------ moveCard ------------------------------ *)

\* the guard of moveCard: both lists are found and fromList.cards[cardIndex]
\* is a card
MoveGuard(fromListId, toListId, cardIndex) ==
    /\ FindListIndex(board.lists, fromListId) # 0
    /\ FindListIndex(board.lists, toListId) # 0
    /\ cardIndex + 1 \in DOMAIN board.lists[FindListIndex(board.lists, fromListId)].cards

\* the insertion done on the arrays as they were before the removal, the
\* first occurrence of the card removed afterwards
MovedLists_insertFirst(lists, fromListId, toListId, cardIndex, newIndex) ==
    LET f    == FindListIndex(lists, fromListId)
        t    == FindListIndex(lists, toListId)
        card == lists[f].cards[cardIndex + 1]
        put  == [lists EXCEPT ![t].cards = IF newIndex # Undefined
                                           THEN SpliceInsert(@, newIndex, card)
                                           ELSE Append(@, card)]
    IN  [put EXCEPT ![f].cards = RemoveAt(@, FindCardIndex(@, card.id))]

\* the card entered into toList.cards without leaving fromList.cards
MovedLists_copy(lists, fromListId, toListId, cardIndex, newIndex) ==
    LET f    == FindListIndex(lists, fromListId)
        t    == FindListIndex(lists, toListId)
        card == lists[f].cards[cardIndex + 1]
    IN  [lists EXCEPT ![t].cards = IF newIndex # Undefined
                                   THEN SpliceInsert(@, newIndex, card)
                                   ELSE Append(@, card)]

\* the two splices: the card leaves fromList.cards, then enters toList.cards
\* (the same array, already without the card, when both ids name one list)
MovedLists(lists, fromListId, toListId, cardIndex, newIndex) ==
    LET f    == FindListIndex(lists, fromListId)
        t    == FindListIndex(lists, toListId)
        card == lists[f].cards[cardIndex + 1]
        cut  == [lists EXCEPT ![f].cards = RemoveAt(@, cardIndex + 1)]
    IN  [cut EXCEPT ![t].cards = IF newIndex # Undefined
                                 THEN SpliceInsert(@, newIndex, card)
                                 ELSE Append(@, card)]

\* an array [fromList, toList] in place of the Set: no deduplication
ListsToUpdate_array(lists, fromListId, toListId) ==
    <<FindListIndex(lists, fromListId), FindListIndex(lists, toListId)>>

\* new Set([fromList, toList]): the affected lists, each once, source first
ListsToUpdate(lists, fromListId, toListId) ==
    LET f == FindListIndex(lists, fromListId)
        t == FindListIndex(lists, toListId)
    IN  IF f = t THEN <<f>> ELSE <<f, t>>

\* requests that carry the position each card holds locally instead of its
\* index
ListRequests_position(list) ==
    [k \in DOMAIN list.cards |->
        Request("PUT_CARD", list.cards[k].id, list.id, list.cards[k].position)]

\* list.cards.forEach: one PUT /api/cards/:id per card of the list, carrying
\* the list's id and the card's index
ListRequests(list) ==
    [k \in DOMAIN list.cards |->
        Request("PUT_CARD", list.cards[k].id, list.id, k - 1)]

\* updatePromises: the requests of every affected list, in iteration order
UpdateRequests(lists, fromListId, toListId) ==
    LET ls == ListsToUpdate(lists, fromListId, toListId)
    IN  IF Len(ls) = 1 THEN ListRequests(lists[ls[1]])
        ELSE ListRequests(lists[ls[1]]) \o ListRequests(lists[ls[2]])

MoveCardCall(fromListId, toListId, cardIndex, newIndex) ==
    /\ CanCall
    /\ IF MoveGuard(fromListId, toListId, cardIndex)
       THEN LET after == MovedLists(board.lists, fromListId, toListId, cardIndex, newIndex)
                f     == FindListIndex(board.lists, fromListId)
            IN  /\ board' = [board EXCEPT !.lists = after]
                /\ ops' = Append(ops,
                      [Op("moveCard", "await", fromListId, toListId,
                          board.lists[f].cards[cardIndex + 1].id,
                          UpdateRequests(after, fromListId, toListId),
                          newIndex, CardsOf(board.lists, fromListId),
                          CardsOf(board.lists, toListId))
                         EXCEPT !.cardIndex = cardIndex])
       ELSE /\ board' = board
            /\ ops' = Append(ops,
                      NoOp("moveCard"))
    /\ UNCHANGED <<isLoading, gw>>
    /\ UNCHANGED fac

\* PUT /api/cards/:id { list_id, position }: the row is updated; no such row,
\* or no such list, is an error (GwFail)
GwUpdateCard(o, i) ==
    /\ o \in DOMAIN ops
    /\ ops[o].kind = "moveCard"
    /\ i \in DOMAIN ops[o].reqs
    /\ ops[o].reqs[i].st = "sent"
    /\ \E c \in gw.cards : c.id = ops[o].reqs[i].card
    /\ ops[o].reqs[i].list \in Range(gw.lists)
    /\ gw' = [gw EXCEPT !.cards =
                {IF c.id = ops[o].reqs[i].card
                 THEN [c EXCEPT !.list = ops[o].reqs[i].list,
                                !.position = ops[o].reqs[i].pos]
                 ELSE c : c \in @}]
    /\ ops' = SetReq(o, i, "ok", [id |-> ops[o].reqs[i].card])
    /\ UNCHANGED <<board, isLoading>>
    /\ UNCHANGED fac

\* await Promise.all(updatePromises): fulfilled when every request is, rejected
\* as soon as one request is rejected
AllSettled(reqs) == \A i \in DOMAIN reqs : reqs[i].st = "done_ok"

\* what moveCard does when the awaited promise is rejected: the catch block
\* logs the error and the function returns
MoveCardCatch(o, settled) == [settled EXCEPT ![o].pc = "done", ![o].outcome = "returned"]

\* a catch block that puts the lists back as they were before the move
MoveCardCatchBoard_rollback(o) ==
    LET f == FindListIndex(board.lists, ops[o].listId)
        t == FindListIndex(board.lists, ops[o].toListId)
    IN  IF f = 0 \/ t = 0 THEN board
        ELSE [board EXCEPT !.lists[t].cards = ops[o].preTo,
                           !.lists[f].cards = ops[o].preFrom]

\* the board the catch block of moveCard leaves: the rollback is a TODO, the
\* lists stay as the splices left them
MoveCardCatchBoard(o) == board

\* the response of one request is delivered: its then / catch callback runs,
\* and moveCard resumes if that settles the promise it awaits
MoveCardSettle(o, i) ==
    /\ o \in DOMAIN ops
    /\ ops[o].kind = "moveCard"
    /\ i \in DOMAIN ops[o].reqs
    /\ ops[o].reqs[i].st \in {"ok", "err"}
    /\ LET st      == IF ops[o].reqs[i].st = "ok" THEN "done_ok" ELSE "done_err"
           settled == [ops EXCEPT ![o].reqs[i].st = st]
       IN  ops' = IF ops[o].pc # "await" THEN settled
                  ELSE IF st = "done_err" THEN MoveCardCatch(o, settled)
                  ELSE IF AllSettled(settled[o].reqs)
                       THEN [settled EXCEPT ![o].pc = "done", ![o].outcome = "returned"]
                       ELSE settled
    /\ board' = IF ops[o].pc = "await" /\ ops[o].reqs[i].st = "err"
                THEN MoveCardCatchBoard(o) ELSE board
    /\ UNCHANGED <<isLoading, gw>>
    /\ UNCHANGED fac

(* ------------------ updateCardTitle / updateCardDescription ----------- *)

\* a scan without the break: every list that has a card with the id gets the
\* field of its first such card assigned
UpdatedLists_noBreak(lists, cardId, field, value) ==
    [i \in DOMAIN lists |->
        IF FindCardIndex(lists[i].cards, cardId) = 0 THEN lists[i]
        ELSE [lists[i] EXCEPT !.cards[FindCardIndex(lists[i].cards, cardId)] =
                                  [@ EXCEPT ![field] = value]]]

\* the scan of both functions: the lists in order, in each the first card
\* with the id; the field of the first card found is assigned and the scan
\* stops
UpdatedLists(lists, cardId, field, value) ==
    IF \A i \in DOMAIN lists : FindCardIndex(lists[i].cards, cardId) = 0
    THEN lists
    ELSE LET i == CHOOSE j \in DOMAIN lists :
                    /\ FindCardIndex(lists[j].cards, cardId) # 0
                    /\ \A h \in 1..(j - 1) : FindCardIndex(lists[h].cards, cardId) = 0
             k == FindCardIndex(lists[i].cards, cardId)
         IN  [lists EXCEPT ![i].cards[k] = [@ EXCEPT ![field] = value]]

\* a call of one of the two functions: synchronous, no request
UpdateCardField(kind, field, cardId, value) ==
    /\ CanCall
    /\ board' = [board EXCEPT !.lists = UpdatedLists(@, cardId, field, value)]
    /\ ops' = Append(ops,
          [Op(kind, "done", Undefined, Undefined, cardId, <<>>, Undefined, <<>>, <<>>)
             EXCEPT !.outcome = "returned", !.value = value])
    /\ UNCHANGED <<isLoading, gw>>
    /\ UNCHANGED fac

UpdateCardTitle(cardId, newTitle) ==
    UpdateCardField("updateCardTitle", "title", cardId, newTitle)

UpdateCardDescription(cardId, newDescription) ==
    UpdateCardField("updateCardDescription", "description", cardId, newDescription)


\* the Gateway fails a request (401, 500, network error) and changes nothing
GwFail(o, i) ==
    /\ o \in DOMAIN ops
    /\ i \in DOMAIN ops[o].reqs
    /\ ops[o].reqs[i].st = "sent"
    /\ ops' = SetReq(o, i, "err", <<>>)
    /\ UNCHANGED <<board, isLoading, gw>>
    /\ UNCHANGED fac

Next ==
    \/ FetchBoardCall
    \/ \E o \in DOMAIN ops : GwGetBoard(o)
    \/ \E o \in DOMAIN ops : GwGetBoardNoLists(o)
    \/ \E o \in DOMAIN ops : FetchBoardResolve(o)
    \/ \E o \in DOMAIN ops : FetchBoardReject(o)
    \/ \E title \in Texts : AddListCall(title)
    \/ \E o \in DOMAIN ops : GwCreateList(o)
    \/ \E o \in DOMAIN ops : AddListResolve(o)
    \/ \E o \in DOMAIN ops : AddListReject(o)
    \/ \E listId \in ListIdArgs, title \in Texts : AddCardCall(listId, title)
    \/ \E o \in DOMAIN ops : GwCreateCard(o)
    \/ \E o \in DOMAIN ops : AddCardResolve(o)
    \/ \E o \in DOMAIN ops : AddCardReject(o)
    \/ \E listId \in ListIdArgs : RemoveListCall(listId)
    \/ \E o \in DOMAIN ops : GwDeleteList(o)
    \/ \E o \in DOMAIN ops : RemoveListResolve(o)
    \/ \E o \in DOMAIN ops : RemoveListReject(o)
    \/ \E listId \in ListIdArgs, cardId \in CardIdArgs : RemoveCardCall(listId, cardId)
    \/ \E o \in DOMAIN ops : GwDeleteCard(o)
    \/ \E o \in DOMAIN ops : RemoveCardResolve(o)
    \/ \E o \in DOMAIN ops : RemoveCardReject(o)
    \/ \E fromListId \in ListIdArgs, toListId \in ListIdArgs,
          cardIndex \in IndexArgs, newIndex \in IndexArgs \cup {Undefined} :
            MoveCardCall(fromListId, toListId, cardIndex, newIndex)
    \/ \E o \in DOMAIN ops : \E i \in DOMAIN ops[o].reqs : GwUpdateCard(o, i)
    \/ \E o \in DOMAIN ops : \E i \in DOMAIN ops[o].reqs : MoveCardSettle(o, i)
    \/ \E cardId \in CardIdArgs, newTitle \in Texts : UpdateCardTitle(cardId, newTitle)
    \/ \E cardId \in CardIdArgs, newDescription \in Texts :
          UpdateCardDescription(cardId, newDescription)
    \/ \E o \in DOMAIN ops : \E i \in DOMAIN ops[o].reqs : GwFail(o, i)

Spec == Init /\ [][Next]_vars

\* fetchBoard, addList and addCard against the Gateway, every new list and
\* card created under one title
NextCreate ==
    \/ FetchBoardCall
    \/ \E o \in DOMAIN ops : GwGetBoard(o)
    \/ \E o \in DOMAIN ops : FetchBoardResolve(o)
    \/ \E o \in DOMAIN ops : FetchBoardReject(o)
    \/ \E title \in {StoredTitle} : AddListCall(title)
    \/ \E o \in DOMAIN ops : GwCreateList(o)
    \/ \E o \in DOMAIN ops : AddListResolve(o)
    \/ \E o \in DOMAIN ops : AddListReject(o)
    \/ \E listId \in ListIdArgs, title \in {StoredTitle} : AddCardCall(listId, title)
    \/ \E o \in DOMAIN ops : GwCreateCard(o)
    \/ \E o \in DOMAIN ops : AddCardResolve(o)
    \/ \E o \in DOMAIN ops : AddCardReject(o)
    \/ \E o \in DOMAIN ops : \E i \in DOMAIN ops[o].reqs : GwFail(o, i)

SpecCreate == Init /\ [][NextCreate]_vars

\* one drag: a single moveCard, and a single fetchBoard before, during or
\* after it, against the Gateway
NextMove ==
    \/ /\ \A p \in DOMAIN ops : ops[p].kind # "fetchBoard"
       /\ FetchBoardCall
    \/ \E o \in DOMAIN ops : GwGetBoard(o)
    \/ \E o \in DOMAIN ops : FetchBoardResolve(o)
    \/ \E o \in DOMAIN ops : FetchBoardReject(o)
    \/ \E fromListId \in ListIdArgs, toListId \in ListIdArgs,
          cardIndex \in IndexArgs, newIndex \in IndexArgs \cup {Undefined} :
            /\ \A p \in DOMAIN ops : ops[p].kind # "moveCard"
            /\ MoveCardCall(fromListId, toListId, cardIndex, newIndex)
    \/ \E o \in DOMAIN ops : \E i \in DOMAIN ops[o].reqs : GwUpdateCard(o, i)
    \/ \E o \in DOMAIN ops : \E i \in DOMAIN ops[o].reqs : MoveCardSettle(o, i)
    \/ \E o \in DOMAIN ops : \E i \in DOMAIN ops[o].reqs : GwFail(o, i)

SpecMove == Init /\ [][NextMove]_vars

\* fetchBoard and removeList against the Gateway
NextRemove ==
    \/ FetchBoardCall
    \/ \E o \in DOMAIN ops : GwGetBoard(o)
    \/ \E o \in DOMAIN ops : FetchBoardResolve(o)
    \/ \E o \in DOMAIN ops : FetchBoardReject(o)
    \/ \E listId \in ListIdArgs : RemoveListCall(listId)
    \/ \E o \in DOMAIN ops : GwDeleteList(o)
    \/ \E o \in DOMAIN ops : RemoveListResolve(o)
    \/ \E o \in DOMAIN ops : RemoveListReject(o)
    \/ \E o \in DOMAIN ops : \E i \in DOMAIN ops[o].reqs : GwFail(o, i)

SpecRemove == Init /\ [][NextRemove]_vars

\* removeList beside addList, another removeList and one moveCard, on a
\* board that was loaded before; the requests of the moveCard, whose
\* responses change nothing on the board, stay in flight
NextFrame ==
    \/ \E title \in {StoredTitle} : AddListCall(title)
    \/ \E o \in DOMAIN ops : GwCreateList(o)
    \/ \E o \in DOMAIN ops : AddListResolve(o)
    \/ \E o \in DOMAIN ops : AddListReject(o)
    \/ \E listId \in ListIdArgs : RemoveListCall(listId)
    \/ \E o \in DOMAIN ops : GwDeleteList(o)
    \/ \E o \in DOMAIN ops : RemoveListResolve(o)
    \/ \E o \in DOMAIN ops : RemoveListReject(o)
    \/ /\ \A p \in DOMAIN ops : ops[p].kind # "moveCard"
       /\ \E fromListId \in ListIdArgs, toListId \in ListIdArgs :
            \E cardIndex \in IndexArgs, newIndex \in IndexArgs \cup {Undefined} :
               MoveCardCall(fromListId, toListId, cardIndex, newIndex)
    \/ \E o \in DOMAIN ops :
          /\ ops[o].kind # "moveCard"
          /\ \E i \in DOMAIN ops[o].reqs : GwFail(o, i)

SpecFrame == Init /\ [][NextFrame]_vars

\* the board a fetchBoard racing with an addCard to list 1 leaves: the
\* response of GET /api/board already holds the new card, and the addCard
\* pushes it once more when its own response arrives (n = 1); after a move
\* of the fetched card to list 2 in between, the two are in different lists
\* (n = 2)
RacedLists(lists, n) ==
    [lists EXCEPT ![n].cards = Append(@, lists[1].cards[Len(lists[1].cards)])]

\* a loaded board, or one with a card twice as the race leaves it
InitEdit ==
    /\ \E n1 \in 0..MaxInitCards, n2 \in 0..MaxInitCards :
          /\ n1 + n2 <= MaxInitCards
          /\ gw = InitDb(n1, n2)
    /\ board \in {[lists |-> FetchedLists(GwBoard(gw))]}
                \cup {[lists |-> RacedLists(FetchedLists(GwBoard(gw)), n)] :
                        n \in {m \in {1, 2} : GwCardsOf(gw, 1) # {}}}
    /\ isLoading = FALSE
    /\ ops = <<>>
    /\ fac = NoFactoryCall

\* updateCardTitle and updateCardDescription, with fetchBoard beside them
NextEdit ==
    \/ FetchBoardCall
    \/ \E o \in DOMAIN ops : GwGetBoard(o)
    \/ \E o \in DOMAIN ops : FetchBoardResolve(o)
    \/ \E o \in DOMAIN ops : FetchBoardReject(o)
    \/ \E cardId \in CardIdArgs, newTitle \in Texts : UpdateCardTitle(cardId, newTitle)
    \/ \E cardId \in CardIdArgs, newDescription \in Texts :
          UpdateCardDescription(cardId, newDescription)
    \/ \E o \in DOMAIN ops : \E i \in DOMAIN ops[o].reqs : GwFail(o, i)

SpecEdit == InitEdit /\ [][NextEdit]_vars

\* fetchBoard calls with every answer the request can get, beside addList
\* calls that change what the Gateway holds between two fetches
NextFetch ==
    \/ FetchBoardCall
    \/ \E o \in DOMAIN ops : GwGetBoard(o)
    \/ \E o \in DOMAIN ops : GwGetBoardNoLists(o)
    \/ \E o \in DOMAIN ops : FetchBoardResolve(o)
    \/ \E o \in DOMAIN ops : FetchBoardReject(o)
    \/ \E title \in {StoredTitle} : AddListCall(title)
    \/ \E o \in DOMAIN ops : GwCreateList(o)
    \/ \E o \in DOMAIN ops : AddListResolve(o)
    \/ \E o \in DOMAIN ops : AddListReject(o)
    \/ \E o \in DOMAIN ops : \E i \in DOMAIN ops[o].reqs : GwFail(o, i)

SpecFetch == Init /\ [][NextFetch]_vars

\* the response of its request is delivered to the addList or removeList
\* operation o and the code after its await runs
Continue(o) ==
    \/ AddListResolve(o)
    \/ AddListReject(o)
    \/ RemoveListResolve(o)
    \/ RemoveListReject(o)

\* the requests of the first operation are never answered: $fetch is awaited
\* without a timeout
Hung(o) == o = 1

\* the calls that create, delete or move; those of cards only as the first
\* operation, the one that hangs
CallHung ==
    \/ \E title \in Texts : AddListCall(title)
    \/ \E listId \in ListIdArgs : RemoveListCall(listId)
    \/ /\ ops = <<>>
       /\ \/ \E listId \in ListIdArgs, title \in Texts : AddCardCall(listId, title)
          \/ \E listId \in ListIdArgs, cardId \in CardIdArgs : RemoveCardCall(listId, cardId)
          \/ \E fromListId \in ListIdArgs, toListId \in ListIdArgs :
               \E cardIndex \in IndexArgs, newIndex \in IndexArgs \cup {Undefined} :
                  MoveCardCall(fromListId, toListId, cardIndex, newIndex)

\* the store with a hung first operation
NextHung ==
    \/ CallHung
    \/ \E o \in DOMAIN ops : ~Hung(o) /\ GwCreateList(o)
    \/ \E o \in DOMAIN ops : ~Hung(o) /\ GwDeleteList(o)
    \/ \E o \in DOMAIN ops : ~Hung(o) /\ \E i \in DOMAIN ops[o].reqs : GwFail(o, i)
    \/ \E o \in DOMAIN ops : Continue(o)

\* the event loop runs the continuation of every response that has arrived
SpecHung ==
    /\ Init
    /\ [][NextHung]_vars
    /\ \A o \in 1..MaxOps : WF_vars(o \in DOMAIN ops /\ Continue(o))

\* the store as constructed, and a list in the hands of a caller of the factory
InitFactory ==
    /\ board = [lists |-> <<>>]
    /\ isLoading = FALSE
    /\ gw = InitDb(0, 0)
    /\ ops = <<>>
    /\ \E n \in 0..MaxInitCards :
          \E randomParts \in [1..(n + 1) -> Randoms],
             descriptions \in [1..n -> {<<>>, <<"D">>}] :
             fac = [NoFactoryCall EXCEPT !.src = SourceList(n, randomParts, descriptions)]

\* time passes
Tick ==
    /\ fac.now < MaxClock
    /\ fac' = [fac EXCEPT !.now = @ + 1]
    /\ UNCHANGED <<board, isLoading, gw, ops>>

\* a caller clones one card of the list
CloneCardCall(index, overrides, randomPart) ==
    /\ fac.fn = "none"
    /\ index \in DOMAIN fac.src.cards
    /\ fac' = [fac EXCEPT !.fn = "cloneCard",
                          !.before = fac.src,
                          !.index = index,
                          !.overrides = overrides,
                          !.out = CloneCard(fac.src.cards[index], overrides,
                                            fac.now, randomPart)]
    /\ UNCHANGED <<board, isLoading, gw, ops>>

\* a caller clones the list; the clock may advance between the calls of
\* generateId
CloneListCall(overrides, timestamps, randomParts) ==
    /\ fac.fn = "none"
    /\ timestamps[1] = fac.now
    /\ \A k \in DOMAIN timestamps : k > 1 => timestamps[k - 1] <= timestamps[k]
    /\ fac' = [fac EXCEPT !.fn = "cloneList",
                          !.before = fac.src,
                          !.overrides = overrides,
                          !.out = CloneList(fac.src, overrides, timestamps, randomParts),
                          !.now = timestamps[Len(timestamps)]]
    /\ UNCHANGED <<board, isLoading, gw, ops>>

\* a caller validates a partial card
ValidateCardCall(card) ==
    /\ fac.fn = "none"
    /\ fac' = [fac EXCEPT !.fn = "validateCard",
                          !.before = card,
                          !.out = ValidateCard(card)]
    /\ UNCHANGED <<board, isLoading, gw, ops>>

\* a caller validates a partial list
ValidateListCall(list) ==
    /\ fac.fn = "none"
    /\ fac' = [fac EXCEPT !.fn = "validateList",
                          !.before = list,
                          !.out = ValidateList(list)]
    /\ UNCHANGED <<board, isLoading, gw, ops>>

NextFactory ==
    \/ Tick
    \/ \E card \in PartialCards : ValidateCardCall(card)
    \/ \E list \in PartialLists : ValidateListCall(list)
    \/ \E index \in 1..MaxInitCards, overrides \in CardOverrides, randomPart \in Randoms :
          CloneCardCall(index, overrides, randomPart)
    \/ \E overrides \in ListOverrides :
          \E timestamps \in [1..(Len(fac.src.cards) + 1) -> 0..MaxClock],
             randomParts \in [1..(Len(fac.src.cards) + 1) -> Randoms] :
             CloneListCall(overrides, timestamps, randomParts)

SpecFactory == InitFactory /\ [][NextFactory]_vars

(* ============================ properties ============================== *)

InFlight(r) == r.st \in {"sent", "ok", "err"}

Failed(r) == r.st \in {"err", "done_err"}

\* no operation is pending and no request is in flight
Quiescent ==
    \A o \in DOMAIN ops :
        /\ ops[o].pc = "done"
        /\ \A i \in DOMAIN ops[o].reqs : ~InFlight(ops[o].reqs[i])

\* cards[i].position == i for every index of the sequence
Contiguous(cards) == \A k \in DOMAIN cards : cards[k].position = k - 1

\* the sequence without the card with this id
Without(cards, cardId) == SelectSeq(cards, LAMBDA c : c.id # cardId)

\* the operation o is the last one called, and nothing was in flight when it
\* was called: whatever the board shows now, no other operation did it since
RanAlone(o) == o = Len(ops) /\ ~ops[o].busyAtCall

\* C1: once every operation has settled, every list of the board satisfies
\* cards[i].position == i for every valid index i.
C1_PositionsContiguousAtRest ==
    Quiescent => \A i \in DOMAIN board.lists : Contiguous(board.lists[i].cards)

\* C2: a cross-list moveCard(A, B, cardIndex, newIndex) on contiguous lists of
\* n and m cards, 0 <= newIndex <= m, once settled: A holds n-1 cards at
\* positions 0..n-2, B holds m+1 cards at positions 0..m, and the moved card
\* is at index newIndex of B with position newIndex.
C2_CrossListMoveRenumbers ==
    \A o \in DOMAIN ops :
        (/\ ops[o].kind = "moveCard"
         /\ ops[o].cardId # Undefined
         /\ ops[o].listId # ops[o].toListId
         /\ ops[o].newIndex # Undefined
         /\ ops[o].newIndex <= Len(ops[o].preTo)
         /\ Contiguous(ops[o].preFrom)
         /\ Contiguous(ops[o].preTo)
         /\ RanAlone(o)
         /\ Quiescent)
        => LET A == CardsOf(board.lists, ops[o].listId)
               B == CardsOf(board.lists, ops[o].toListId)
           IN  /\ Len(A) = Len(ops[o].preFrom) - 1
               /\ Contiguous(A)
               /\ Len(B) = Len(ops[o].preTo) + 1
               /\ Contiguous(B)
               /\ B[ops[o].newIndex + 1].id = ops[o].cardId
               /\ B[ops[o].newIndex + 1].position = ops[o].newIndex

\* C3: every card's listId is the id of the list whose cards sequence holds it.
C3_ListIdMatchesContainer ==
    \A i \in DOMAIN board.lists : \A k \in DOMAIN board.lists[i].cards :
        Prop(board.lists[i].cards[k], "listId") = board.lists[i].id

\* the step is the call of the store action `kind` (its synchronous prefix)
Called(kind) ==
    /\ Len(ops') = Len(ops) + 1
    /\ ops'[Len(ops')].kind = kind

\* C4: addList / addCard append the new entity to local state at call time,
\* before the Gateway's create call resolves.
C4_CreateAppendsAtCall ==
    [][/\ Called("addList") => Len(board'.lists) = Len(board.lists) + 1
       /\ Called("addCard") =>
            LET listId == ops'[Len(ops')].listId
            IN  FindListIndex(board.lists, listId) # 0 =>
                  Len(CardsOf(board'.lists, listId))
                      = Len(CardsOf(board.lists, listId)) + 1]_vars

\* the ids of the container a create operation appends to
ContainerIds(o) ==
    IF ops[o].kind = "addList" THEN Ids(board.lists)
    ELSE Ids(CardsOf(board.lists, ops[o].listId))

\* C5: when only create calls on one container were made and none has failed,
\* the entity of the k-th call ends up at the index it was given at call time
\* (behind the entities the container held and those of the calls before it),
\* whatever the order of the responses.
C5_CreateKeepsCallOrder ==
    (/\ \A p \in DOMAIN ops :
          /\ ops[p].kind \in {"addList", "addCard"}
          /\ ops[p].kind = ops[1].kind
          /\ ops[p].listId = ops[1].listId
          /\ ~Failed(ops[p].reqs[1])
     /\ ops # <<>>
     /\ ops[1].kind = "addCard" => FindListIndex(board.lists, ops[1].listId) # 0)
    => \A o \in DOMAIN ops :
          ops[o].pc = "done" =>
            /\ Len(ops[1].preFrom) + o \in DOMAIN ContainerIds(o)
            /\ ContainerIds(o)[Len(ops[1].preFrom) + o] = ops[o].reqs[1].resp.id

\* what a create operation appends to: the cards of its list, or the ids of
\* the lists of the board
Container(o) ==
    IF ops[o].kind = "addList" THEN Ids(board.lists)
    ELSE CardsOf(board.lists, ops[o].listId)

\* the step delivers the failure of the create request of operation o
CreateFailureDelivered(o) ==
    /\ ops[o].kind \in {"addList", "addCard"}
    /\ ops[o].pc = "await"
    /\ ops'[o].pc = "done"
    /\ ops'[o].reqs[1].st = "done_err"

\* C6: a createCard / createList whose Gateway create call fails leaves its
\* container (the cards of the target list with their positions, the lists of
\* the board) as it was before the call: the step that handles the failure
\* changes nothing on the board, and a failed create that ran alone leaves
\* exactly the sequence the caller saw.
C6_FailedCreateLeavesContainer ==
    /\ [](\A o \in DOMAIN ops :
            (/\ ops[o].kind \in {"addList", "addCard"}
             /\ ops[o].pc = "done"
             /\ Failed(ops[o].reqs[1])
             /\ RanAlone(o))
            => Container(o) = ops[o].preFrom)
    /\ [][\A o \in DOMAIN ops : CreateFailureDelivered(o) => board' = board]_vars

\* a createCard on a list that holds cards has failed, having run alone
C6_Witness ==
    \E o \in DOMAIN ops :
        /\ ops[o].kind = "addCard"
        /\ ops[o].pc = "done"
        /\ ops[o].reqs[1].st = "done_err"
        /\ RanAlone(o)
        /\ Len(ops[o].preFrom) >= 2
        /\ Container(o) = ops[o].preFrom

\* C7: when the Gateway create call of createList / createCard fails, the
\* operation ends with the error surfaced to its caller, and the create
\* request is not issued a second time.
C7_FailedCreateThrows ==
    \A o \in DOMAIN ops :
        (/\ ops[o].kind \in {"addList", "addCard"}
         /\ ops[o].pc = "done"
         /\ Failed(ops[o].reqs[1]))
        => /\ ops[o].outcome = "threw"
           /\ Len(ops[o].reqs) = 1

\* the lists a move touches, each once
Affected(lists, o) ==
    {FindListIndex(lists, o.listId), FindListIndex(lists, o.toListId)}

RECURSIVE SumLen(_, _)
SumLen(lists, is) ==
    IF is = {} THEN 0
    ELSE LET i == CHOOSE x \in is : TRUE
         IN  Len(lists[i].cards) + SumLen(lists, is \ {i})

\* C8: moveCard issues exactly one position-update request for every card of
\* every distinct affected list after the splice, each carrying the id of the
\* list that holds the card and the card's index in it: |A|+|B| requests for
\* a cross-list move, |A| for a same-list move.
C8_OneUpdatePerAffectedCard ==
    [][(Called("moveCard") /\ ops'[Len(ops')].pc = "await") =>
        LET o    == ops'[Len(ops')]
            aff  == Affected(board'.lists, o)
        IN  /\ Len(o.reqs) = SumLen(board'.lists, aff)
            /\ \A r \in DOMAIN o.reqs : o.reqs[r].verb = "PUT_CARD" /\ o.reqs[r].st = "sent"
            /\ \A i \in aff : \A k \in DOMAIN board'.lists[i].cards :
                 LET rs == {r \in DOMAIN o.reqs :
                              o.reqs[r].card = board'.lists[i].cards[k].id}
                 IN  /\ Cardinality(rs) = 1
                     /\ \A r \in rs : /\ o.reqs[r].list = board'.lists[i].id
                                      /\ o.reqs[r].pos = k - 1]_vars

\* a cross-list move has just issued requests for cards of both lists
C8_Witness ==
    \E o \in DOMAIN ops :
        /\ ops[o].kind = "moveCard"
        /\ ops[o].listId # ops[o].toListId
        /\ Len(ops[o].reqs) = 2
        /\ ops[o].reqs[1].list = ops[o].listId
        /\ ops[o].reqs[2].list = ops[o].toListId
        /\ \A i \in DOMAIN ops[o].reqs : ops[o].reqs[i].st = "sent"
        /\ Len(CardsOf(board.lists, ops[o].listId)) = 1
        /\ Len(CardsOf(board.lists, ops[o].toListId)) = 1

\* C9: moveCard does not complete until every position-update request it
\* issued has settled, also when one request of the batch fails.
C9_MoveWaitsForAllRequests ==
    \A o \in DOMAIN ops :
        (ops[o].kind = "moveCard" /\ ops[o].pc = "done")
        => \A i \in DOMAIN ops[o].reqs : ~InFlight(ops[o].reqs[i])

\* the lists of the board show the move of operation o: the source without
\* the card, the destination with the card at newIndex (at its end when
\* newIndex is absent), every other card in the order it had
ShowsMove(o) ==
    LET F == CardsOf(board.lists, ops[o].listId)
        T == CardsOf(board.lists, ops[o].toListId)
        k == IF ops[o].newIndex = Undefined THEN Len(T)
             ELSE Min(ops[o].newIndex, Len(T) - 1) + 1
    IN  /\ k \in DOMAIN T
        /\ T[k].id = ops[o].cardId
        /\ IF ops[o].listId = ops[o].toListId
           THEN Without(T, ops[o].cardId) = Without(ops[o].preFrom, ops[o].cardId)
           ELSE /\ F = Without(ops[o].preFrom, ops[o].cardId)
                /\ Without(T, ops[o].cardId) = ops[o].preTo

\* the Gateway holds what the request r wrote
Applied(r) ==
    \E c \in gw.cards : c.id = r.card /\ c.list = r.list /\ c.position = r.pos

\* C10: when a position-update request of a moveCard batch fails, nothing is
\* rolled back: the board keeps the post-move order of the affected lists and
\* the updates of the batch that succeeded stay applied at the Gateway; the
\* step that handles the failure changes neither and issues no request.
C10_FailedMoveKeepsState ==
    /\ [](\A o \in DOMAIN ops :
            (/\ ops[o].kind = "moveCard"
             /\ ops[o].cardId # Undefined
             /\ RanAlone(o)
             /\ \E i \in DOMAIN ops[o].reqs : Failed(ops[o].reqs[i]))
            => /\ ShowsMove(o)
               /\ \A i \in DOMAIN ops[o].reqs :
                    ops[o].reqs[i].st \in {"ok", "done_ok"} => Applied(ops[o].reqs[i]))
    /\ [][\A o \in DOMAIN ops : \A i \in DOMAIN ops[o].reqs :
            (/\ ops[o].kind = "moveCard"
             /\ ops[o].reqs[i].st = "err"
             /\ ops'[o].reqs[i].st = "done_err")
            => /\ board' = board
               /\ gw' = gw
               /\ Len(ops') = Len(ops)
               /\ \A p \in DOMAIN ops : Len(ops'[p].reqs) = Len(ops[p].reqs)]_vars

\* a cross-list move has returned after one of its requests failed while
\* another had succeeded
C10_Witness ==
    \E o \in DOMAIN ops :
        /\ ops[o].kind = "moveCard"
        /\ ops[o].pc = "done"
        /\ ops[o].listId # ops[o].toListId
        /\ RanAlone(o)
        /\ \E i \in DOMAIN ops[o].reqs : ops[o].reqs[i].st = "done_err"
        /\ \E i \in DOMAIN ops[o].reqs : ops[o].reqs[i].st = "done_ok"
        /\ ShowsMove(o)

\* C11: when a position-update request issued by moveCard fails, the failure
\* is reported to the caller of moveCard: the operation ends in an error
\* outcome, distinguishable from a successful move.
C11_FailedMoveThrows ==
    \A o \in DOMAIN ops :
        (/\ ops[o].kind = "moveCard"
         /\ ops[o].pc = "done"
         /\ \E i \in DOMAIN ops[o].reqs : ops[o].reqs[i].st = "done_err")
        => ops[o].outcome = "threw"

\* the list of removeList operation o is on the board with the cards the
\* caller saw
ListKept(o) ==
    /\ FindListIndex(board.lists, ops[o].listId) # 0
    /\ CardsOf(board.lists, ops[o].listId) = ops[o].preFrom

\* C12: removeList removes the list from local state only after the Gateway
\* delete has succeeded: the list (with its cards) stays on the board while
\* the delete is in flight and when it has failed, a failed delete ends with
\* the error re-thrown, and only the step that handles a successful response
\* takes a list off the board.
C12_RemoveListAfterSuccess ==
    /\ [](\A o \in DOMAIN ops :
            (ops[o].kind = "removeList" /\ ops[o].reqs # <<>>)
            => /\ (ops[o].pc = "done" /\ Failed(ops[o].reqs[1]))
                    => ops[o].outcome = "threw"
               /\ (RanAlone(o) /\ ops[o].reqs[1].st # "done_ok") => ListKept(o))
    /\ [][/\ (Called("removeList") /\ Len(ops) < Len(ops')) => board' = board
          /\ \A o \in DOMAIN ops :
               (/\ ops[o].kind = "removeList"
                /\ ops[o].pc = "await"
                /\ ops'[o].pc = "done")
               => \/ board' = board
                  \/ /\ ops[o].reqs[1].st = "ok"
                     /\ Ids(board'.lists) =
                          SelectSeq(Ids(board.lists), LAMBDA l : l # ops[o].listId)]_vars

\* a removeList of a list that holds cards has failed and thrown, the list
\* still on the board
C12_Witness ==
    \E o \in DOMAIN ops :
        /\ ops[o].kind = "removeList"
        /\ ops[o].pc = "done"
        /\ ops[o].reqs # <<>>
        /\ ops[o].reqs[1].st = "done_err"
        /\ ops[o].outcome = "threw"
        /\ RanAlone(o)
        /\ ops[o].preFrom # <<>>
        /\ ListKept(o)

\* C13: removeCard: when the Gateway delete fails, the card remains in its
\* list and the error is re-thrown to the caller; when it succeeds the card
\* is spliced out of that list.
C13_RemoveCardThrowsOnFailure ==
    \A o \in DOMAIN ops :
        (ops[o].kind = "removeCard" /\ ops[o].pc = "done" /\ RanAlone(o))
        => IF Failed(ops[o].reqs[1])
           THEN /\ CardsOf(board.lists, ops[o].listId) = ops[o].preFrom
                /\ ops[o].outcome = "threw"
           ELSE CardsOf(board.lists, ops[o].listId)
                    = Without(ops[o].preFrom, ops[o].cardId)

\* the call just made changed nothing, threw nothing and issued no request
CallWasNoOp ==
    /\ board' = board
    /\ ops'[Len(ops')].reqs = <<>>
    /\ ops'[Len(ops')].outcome = "returned"

\* C14: an operation that references an id absent from local state (removeList
\* with an unknown listId, removeCard with an unknown listId or cardId,
\* createCard with an unknown listId, moveCard with an unknown fromListId or
\* toListId) changes no local state, raises no error and issues no Gateway
\* request.
C14_UnknownIdIsNoOp ==
    [][/\ (Called("addCard")
            /\ FindListIndex(board.lists, ops'[Len(ops')].listId) = 0)
          => CallWasNoOp
       /\ (Called("removeCard")
            /\ FindCardIndex(CardsOf(board.lists, ops'[Len(ops')].listId),
                             ops'[Len(ops')].cardId) = 0)
          => CallWasNoOp
       /\ (Called("removeList") /\ ~CallWasNoOp)
          => FindListIndex(board.lists, ops'[Len(ops')].listId) # 0
       /\ (Called("moveCard") /\ ~CallWasNoOp)
          => /\ FindListIndex(board.lists, ops'[Len(ops')].listId) # 0
             /\ FindListIndex(board.lists, ops'[Len(ops')].toListId) # 0]_vars

\* the number of cards on all lists
RECURSIVE CardCount(_)
CardCount(lists) ==
    IF lists = <<>> THEN 0 ELSE Len(lists[1].cards) + CardCount(Tail(lists))

Occurrences(cardId) ==
    Cardinality({<<i, k>> \in (DOMAIN board.lists) \X (0..MaxInitCards + MaxOps) :
                    /\ k \in DOMAIN board.lists[i].cards
                    /\ board.lists[i].cards[k].id = cardId})

\* C16: in every state another operation can observe (some operation is
\* suspended awaiting the Gateway), every card of the board is contained in
\* exactly one list: the state of moveCard between taking the card out of the
\* source and putting it into the destination is never observable.
C16_CardInExactlyOneList ==
    (\E p \in DOMAIN ops : ops[p].pc = "await") =>
        /\ \A i \in DOMAIN board.lists : \A k \in DOMAIN board.lists[i].cards :
              Occurrences(board.lists[i].cards[k].id) = 1
        /\ \A o \in DOMAIN ops :
              (ops[o].kind = "moveCard" /\ ops[o].cardId # Undefined /\ RanAlone(o))
              => \A c \in Range(Ids(ops[o].preFrom)) \cup Range(Ids(ops[o].preTo)) :
                    Occurrences(c) = 1

\* a cross-list move is suspended on its requests, the moved card in the
\* destination and another card left in the source
C16_Witness ==
    \E o \in DOMAIN ops :
        /\ ops[o].kind = "moveCard"
        /\ ops[o].pc = "await"
        /\ ops[o].listId # ops[o].toListId
        /\ RanAlone(o)
        /\ Len(ops[o].preFrom) = 2
        /\ FindCardIndex(CardsOf(board.lists, ops[o].toListId), ops[o].cardId) # 0
        /\ Occurrences(ops[o].cardId) = 1

\* C17: in every reachable state of the store no card title and no list title
\* held in local state has leading or trailing whitespace.
C17_TitlesTrimmed ==
    \A i \in DOMAIN board.lists :
        /\ Trim(board.lists[i].title) = board.lists[i].title
        /\ \A k \in DOMAIN board.lists[i].cards :
              Trim(board.lists[i].cards[k].title) = board.lists[i].cards[k].title

\* the card at index k of list i is the first one with this id in a scan of
\* the lists in order
FirstWithId(lists, i, k, cardId) ==
    /\ lists[i].cards[k].id = cardId
    /\ \A j \in DOMAIN lists : \A h \in DOMAIN lists[j].cards :
          lists[j].cards[h].id = cardId => (i < j \/ (i = j /\ k <= h))

\* the field an update operation names
FieldOf(kind) == IF kind = "updateCardTitle" THEN "title" ELSE "description"

\* C18: updateCardTitle(cardId, value) and updateCardDescription(cardId,
\* value) change only the named field of the first card with that id found
\* by scanning the lists in order, issue no Gateway request and leave every
\* other card, every list's card order and all positions unchanged; when no
\* card has that id, local state is unchanged.
C18_UpdateChangesOneField ==
    [][(Called("updateCardTitle") \/ Called("updateCardDescription")) =>
        LET o == ops'[Len(ops')]
        IN  /\ o.reqs = <<>>
            /\ SubSeq(ops', 1, Len(ops)) = ops
            /\ gw' = gw
            /\ isLoading' = isLoading
            /\ DOMAIN board'.lists = DOMAIN board.lists
            /\ \A i \in DOMAIN board.lists :
                 /\ board'.lists[i].id = board.lists[i].id
                 /\ board'.lists[i].title = board.lists[i].title
                 /\ DOMAIN board'.lists[i].cards = DOMAIN board.lists[i].cards
                 /\ \A k \in DOMAIN board.lists[i].cards :
                      IF FirstWithId(board.lists, i, k, o.cardId)
                      THEN /\ board'.lists[i].cards[k][FieldOf(o.kind)] = o.value
                           /\ \A f \in DOMAIN board.lists[i].cards[k] \ {FieldOf(o.kind)} :
                                board'.lists[i].cards[k][f] = board.lists[i].cards[k][f]
                           /\ DOMAIN board'.lists[i].cards[k] = DOMAIN board.lists[i].cards[k]
                      ELSE board'.lists[i].cards[k] = board.lists[i].cards[k]]_vars

\* the title of a card that is on the board twice was updated: the first of
\* the two carries the new title, the second the old one
C18_Witness ==
    \E o \in DOMAIN ops :
        /\ ops[o].kind = "updateCardTitle"
        /\ \E i, j \in DOMAIN board.lists :
             \E k \in DOMAIN board.lists[i].cards, h \in DOMAIN board.lists[j].cards :
                /\ i < j \/ (i = j /\ k < h)
                /\ board.lists[i].cards[k].id = ops[o].cardId
                /\ board.lists[j].cards[h].id = ops[o].cardId
                /\ board.lists[i].cards[k].title = ops[o].value
                /\ board.lists[j].cards[h].title # ops[o].value

\* every request of operation o has been answered by the Gateway
Answered(o) ==
    /\ o \in DOMAIN ops
    /\ \A i \in DOMAIN ops[o].reqs : ops[o].reqs[i].st # "sent"

\* the first operation is suspended on requests the Gateway has not answered
FirstHangs ==
    /\ 1 \in DOMAIN ops
    /\ ops[1].pc = "await"
    /\ \A i \in DOMAIN ops[1].reqs : ops[1].reqs[i].st = "sent"

C20_CloneHasFreshIds ==
    /\ fac.fn = "cloneCard" => fac.out.id # fac.before.cards[fac.index].id
    /\ fac.fn = "cloneList" =>
          /\ fac.out.id # fac.before.id
          /\ Len(fac.out.cards) = Len(fac.before.cards)
          /\ \A k \in DOMAIN fac.before.cards :
                /\ fac.out.cards[k].id # fac.before.cards[k].id
                /\ fac.out.cards[k].listId = fac.out.id
                /\ fac.out.cards[k].title = fac.before.cards[k].title
                /\ fac.out.cards[k].description = fac.before.cards[k].description
                /\ fac.out.cards[k].position = fac.before.cards[k].position
    /\ fac.fn # "none" => fac.src = fac.before

\* the value the clone must carry in field f: the override when overrides
\* sets the field, the value of the source otherwise
Inherited(source, overrides, f) ==
    IF f \in DOMAIN overrides THEN overrides[f] ELSE source[f]

\* C21: cloneCard(entity, overrides) and cloneList(entity, overrides) copy
\* every field that overrides leaves unset from the source unchanged (the
\* title of a cloned list included) and apply every field that overrides
\* does set, also when the value set is the empty string or 0.
C21_CloneAppliesOverrides ==
    /\ fac.fn = "cloneCard" =>
          \A f \in {"title", "listId", "description", "position"} :
              fac.out[f] = Inherited(fac.before.cards[fac.index], fac.overrides, f)
    /\ fac.fn = "cloneList" =>
          \A f \in {"title", "position"} :
              fac.out[f] = Inherited(fac.before, fac.overrides, f)

\* the position of the entity is missing, is not a number or is negative
PositionViolated(entity) ==
    \/ "position" \notin DOMAIN entity
    \/ entity.position.type # "number"
    \/ entity.position.nan
    \/ entity.position.value < 0

\* the messages of the constraints that are violated, in the order given
Violations(checks) ==
    LET kept == SelectSeq(checks, LAMBDA c : c[1])
    IN  [i \in DOMAIN kept |-> kept[i][2]]

\* C22: validateCard(partial) returns, in the fixed order title, listId,
\* position, one violation for each violated constraint and no others (title
\* empty after trimming; listId empty or absent; position absent, not a
\* number or negative), never stopping at the first, hence the empty sequence
\* if and only if all three constraints hold; validateList does the same for
\* title and position.
C22_ValidateReportsEveryViolation ==
    /\ fac.fn = "validateCard" =>
          fac.out = Violations(
             <<<<"title" \notin DOMAIN fac.before \/ Trim(fac.before.title) = <<>>,
                 CardTitleEmpty>>,
               <<"listId" \notin DOMAIN fac.before \/ fac.before.listId = <<>>,
                 CardWithoutList>>,
               <<PositionViolated(fac.before), CardPositionInvalid>>>>)
    /\ fac.fn = "validateList" =>
          fac.out = Violations(
             <<<<"title" \notin DOMAIN fac.before \/ Trim(fac.before.title) = <<>>,
                 ListTitleEmpty>>,
               <<PositionViolated(fac.before), ListPositionInvalid>>>>)

\* C23: when removeList(listId) succeeds it removes exactly the list with
\* that id together with all its cards and leaves every other list, the
\* cards of those lists and the relative order of the remaining lists
\* unchanged, also when other operations (addList, another removeList,
\* moveCard) changed the board while the delete was in flight.
C23_RemoveListFrame ==
    [][\A o \in DOMAIN ops :
          (/\ ops[o].kind = "removeList"
           /\ ops[o].pc = "await"
           /\ ops'[o].pc = "done"
           /\ ops'[o].reqs[1].st = "done_ok")
          => board'.lists =
                SelectSeq(board.lists, LAMBDA l : l.id # ops[o].listId)]_vars

\* the delete of list 1 has succeeded after a moveCard, called while it was
\* in flight, had put a card of list 1 into list 2: list 1 is gone, list 2
\* still holds the moved card
C23_Witness ==
    /\ Len(ops) = 2
    /\ ops[1].kind = "removeList"
    /\ ops[1].reqs # <<>>
    /\ ops[1].reqs[1].st = "done_ok"
    /\ ops[2].kind = "moveCard"
    /\ ops[2].listId = ops[1].listId
    /\ ops[2].toListId # ops[1].listId
    /\ ops[2].cardId # Undefined
    /\ FindListIndex(board.lists, ops[1].listId) = 0
    /\ FindCardIndex(CardsOf(board.lists, ops[2].toListId), ops[2].cardId) # 0

\* moveCard operation o ran with nothing else in flight and every one of its
\* position-update requests succeeded
MovedAlone(o) ==
    /\ ops[o].kind = "moveCard"
    /\ ops[o].pc = "done"
    /\ RanAlone(o)
    /\ ops[o].reqs # <<>>
    /\ \A i \in DOMAIN ops[o].reqs : ops[o].reqs[i].st = "done_ok"

\* C24: when a moveCard runs with no other operation in flight and all of its
\* position-update requests succeed, then after it completes the Gateway's
\* recorded (list id, position) of every card in the affected lists equals
\* the id of the list that locally contains the card and the card's index in
\* that list.
C24_GatewayMatchesLocalAfterMove ==
    \A o \in DOMAIN ops :
        MovedAlone(o) =>
            \A listId \in {ops[o].listId, ops[o].toListId} :
                \A k \in DOMAIN CardsOf(board.lists, listId) :
                    /\ \E row \in gw.cards : row.id = CardsOf(board.lists, listId)[k].id
                    /\ \A row \in gw.cards :
                          row.id = CardsOf(board.lists, listId)[k].id
                             => row.list = listId /\ row.position = k - 1

\* a cross-list move between two lists that hold cards has completed alone
\* with every request successful
C24_Witness ==
    \E o \in DOMAIN ops :
        /\ MovedAlone(o)
        /\ ops[o].listId # ops[o].toListId
        /\ ops[o].newIndex = 0
        /\ Len(CardsOf(board.lists, ops[o].toListId)) > 1

\* C25 (stated of any interleaving of fetchBoard, addList, addCard, removeCard,
\* removeList and moveCard): no two cards on the local board have the same id
\* and no two local lists have the same id
C25_LocalIdsUnique ==
    /\ \A i, j \in DOMAIN board.lists :
          board.lists[i].id = board.lists[j].id => i = j
    /\ \A i, j \in DOMAIN board.lists :
          \A k \in DOMAIN board.lists[i].cards, m \in DOMAIN board.lists[j].cards :
              board.lists[i].cards[k].id = board.lists[j].cards[m].id
                 => i = j /\ k = m

\* the step is the one in which the fetchBoard call o finishes
FetchFinishes(o) ==
    /\ ops[o].kind = "fetchBoard"
    /\ ops[o].pc = "await"
    /\ ops'[o].pc = "done"

\* the request of call o failed, or was answered with a body without lists
NoListsReceived(o) ==
    \/ ops[o].reqs[1].st = "err"
    \/ "lists" \notin DOMAIN ops[o].reqs[1].resp

\* C26: fetchBoard sets isLoading to true when it starts and to false when it
\* finishes, whether the request succeeded or failed; when the request fails or
\* its response has no lists the local list sequence becomes empty, and in no
\* case does an error reach the caller.
C26_FetchBoardLoadingAndFallback ==
    [][/\ Called("fetchBoard") => isLoading' = TRUE
       /\ \A o \in DOMAIN ops :
             FetchFinishes(o) =>
                 /\ isLoading' = FALSE
                 /\ ops'[o].outcome = "returned"
                 /\ NoListsReceived(o) => board'.lists = <<>>]_vars

\* one fetchBoard has finished after a failed request and another after a
\* response without lists, while the Gateway holds lists
C26_Witness ==
    /\ \E o \in DOMAIN ops :
          /\ ops[o].kind = "fetchBoard"
          /\ ops[o].pc = "done"
          /\ ops[o].reqs[1].st = "done_err"
          /\ ops[o].outcome = "returned"
    /\ \E o \in DOMAIN ops :
          /\ ops[o].kind = "fetchBoard"
          /\ ops[o].pc = "done"
          /\ ops[o].reqs[1].st = "done_ok"
          /\ ops[o].reqs[1].resp = NoListsBody
    /\ gw.lists # <<>>
    /\ board.lists = <<>>
    /\ ~isLoading

====
